---- MODULE Spec2Model ----
(***************************************************************************)
(* Model of the BookPost backend (Django REST Framework):                  *)
(*   api/ocr_service.py  OCRService: text extraction and segmentation      *)
(*   api/views.py        BlogPostViewSet.upload / retrieve                 *)
(*   api/serializers.py  BlogPostUploadSerializer, ParagraphSerializer     *)
(*   api/models.py       BlogPost, Paragraph, Idea                         *)
(*                                                                         *)
(* A Python str is a sequence of one-character strings.  The whitespace    *)
(* class of str.split(), str.strip() and the regular expression \s is the  *)
(* same class; the model's alphabet holds three of its members.            *)
(***************************************************************************)
EXTENDS Integers, Sequences, FiniteSets, TLC

VARIABLES
    \* ---- one direct call of OCRService.parse_into_paragraphs ----
    text,                \* its argument
    cleaned_paragraphs,  \* the list it returns
    returned,            \* whether the call has returned
    \* ---- the handler BlogPostViewSet.upload, one per request ----
    pc,                  \* position of each upload request
    request,             \* serializer.validated_data of the request
    raw_text,            \* local raw_text of extract_and_parse
    paragraphs,          \* local paragraphs (the segmenter's output)
    title,               \* local title
    blog_post,           \* id of the BlogPost the request created (0: none)
    idx,                 \* enumerate(paragraphs, start=1): the next idx
    response,            \* the Response returned
    temp_files,          \* temporary image files that exist on disk
    \* ---- the database (autocommit: every create commits) ----
    BlogPost_objects,    \* id -> [title, author]
    Paragraph_objects,   \* rows [post, paragraph_id, text]
    Idea_objects,        \* rows [id, post, paragraph, quote, note]
    next_post_id,        \* the AutoField sequence of BlogPost
    next_idea_id,        \* the AutoField sequence of Idea
    \* ---- BlogPostViewSet.retrieve ----
    retrieved            \* the body of the last retrieve response

vars == <<text, cleaned_paragraphs, returned, pc, request, raw_text,
          paragraphs, title, blog_post, idx, response, temp_files,
          BlogPost_objects, Paragraph_objects, Idea_objects, next_post_id,
          next_idea_id, retrieved>>

segVars == <<text, cleaned_paragraphs, returned>>

uploadVars == <<pc, request, raw_text, paragraphs, title, blog_post, idx,
                response, temp_files>>

ideaVars == <<Idea_objects, next_idea_id>>

dbVars == <<BlogPost_objects, Paragraph_objects, ideaVars, next_post_id>>

----------------------------------------------------------------------------
(* Bounds of the model *)

MaxUploads == 2

MaxPieces == 5

\* Ideas created in a behaviour.
MaxIdeas == 1

(* Program constants *)

NoiseThreshold == 20

TitleLimit == 50

----------------------------------------------------------------------------
(* Strings *)

Rep(c, n) == [i \in 1..n |-> c]

IsSpace(c) == c \in {" ", "\n", "\t"}

Untitled == <<"U", "n", "t", "i", "t", "l", "e", "d", " ", "P", "o", "s", "t">>

Ellipsis == <<".", ".", ".">>

MyTitle == <<"M", "y">>

Max(S) == CHOOSE x \in S : \A y \in S : y <= x

Min(S) == CHOOSE x \in S : \A y \in S : x <= y

----------------------------------------------------------------------------
(* OCRService.parse_into_paragraphs *)

Indices(s) == [k \in 1..Len(s) |-> k]

\* str.split() with no argument: the maximal runs of non-whitespace, each
\* from its first to its last character.
py_split(s) ==
    LET first == SelectSeq(Indices(s),
                           LAMBDA k : ~IsSpace(s[k]) /\ (k = 1 \/ IsSpace(s[k - 1])))
        last == SelectSeq(Indices(s),
                          LAMBDA k : ~IsSpace(s[k]) /\ (k = Len(s) \/ IsSpace(s[k + 1])))
    IN  [n \in 1..Len(first) |-> SubSeq(s, first[n], last[n])]

\* Faulty variant of py_join: '\n'.join(tokens)
RECURSIVE py_join_Newline(_)
py_join_Newline(tokens) ==
    IF tokens = <<>> THEN <<>>
    ELSE IF Len(tokens) = 1 THEN tokens[1]
    ELSE tokens[1] \o <<"\n">> \o py_join_Newline(Tail(tokens))

\* ' '.join(tokens)
RECURSIVE py_join(_)
py_join(tokens) ==
    IF tokens = <<>> THEN <<>>
    ELSE IF Len(tokens) = 1 THEN tokens[1]
    ELSE tokens[1] \o <<" ">> \o py_join(Tail(tokens))

\* para = ' '.join(para.split())
Normalize(para) == py_join(py_split(para))

\* The end of the maximal run of whitespace that starts right after index i.
RECURSIVE WsRunEnd(_, _)
WsRunEnd(s, i) ==
    IF i < Len(s) /\ IsSpace(s[i + 1]) THEN WsRunEnd(s, i + 1) ELSE i

\* Faulty variant of MatchEnd: the pattern \n\n+, without the \s* in the middle
MatchEnd_NoInnerWhitespace(s, i) ==
    LET run == {k \in (i + 1)..Len(s) : \A j \in (i + 1)..k : s[j] = "\n"}
    IN  IF run = {} THEN 0 ELSE Max(run)

\* A match of \n\s*\n+ that starts at index i (s[i] is a newline): \s* is
\* greedy and gives characters back until \n+ can match, so the match ends
\* at the last newline of the whitespace run after i.  0: no match at i.
MatchEnd(s, i) ==
    LET nl == {k \in (i + 1)..WsRunEnd(s, i) : s[k] = "\n"}
    IN  IF nl = {} THEN 0 ELSE Max(nl)

\* re.split(r'\n\s*\n+', text): the next match is the leftmost one that
\* starts at index i or later; from is the start of the current block.
RECURSIVE SplitFrom(_, _, _)
SplitFrom(s, from, i) ==
    LET starts == {k \in i..Len(s) : s[k] = "\n" /\ MatchEnd(s, k) # 0}
    IN  IF starts = {} THEN <<SubSeq(s, from, Len(s))>>
        ELSE LET m == Min(starts)
             IN  <<SubSeq(s, from, m - 1)>>
                 \o SplitFrom(s, MatchEnd(s, m) + 1, MatchEnd(s, m) + 1)

re_split(s) == SplitFrom(s, 1, 1)

\* Faulty variant of KeepParagraph: if len(para) >= 20
KeepParagraph_AtLeast(para) == Len(para) >= NoiseThreshold

\* if len(para) > 20
KeepParagraph(para) == Len(para) > NoiseThreshold

\* Faulty variant of LoopBody: a paragraph already in the list is not appended again
LoopBody_Dedup(cleaned, para) ==
    LET p == Normalize(para)
    IN  IF KeepParagraph(p) /\ ~\E k \in 1..Len(cleaned) : cleaned[k] = p
        THEN Append(cleaned, p)
        ELSE cleaned

\* One iteration of the for loop over the blocks.
LoopBody(cleaned, para) ==
    LET p == Normalize(para)
    IN  IF KeepParagraph(p) THEN Append(cleaned, p) ELSE cleaned

RECURSIVE ForEachBlock(_, _, _)
ForEachBlock(blocks, k, cleaned) ==
    IF k > Len(blocks) THEN cleaned
    ELSE ForEachBlock(blocks, k + 1, LoopBody(cleaned, blocks[k]))

parse_into_paragraphs(s) == ForEachBlock(re_split(s), 1, <<>>)

----------------------------------------------------------------------------
(* Inputs of the direct call: every concatenation of at most MaxPieces     *)
(* pieces; a piece is a word (of 20, 21 or 9 letters) or one whitespace    *)
(* character.                                                              *)

WordA == Rep("a", NoiseThreshold)

WordB == Rep("b", NoiseThreshold + 1)

WordC == Rep("c", TitleLimit - (2 * NoiseThreshold + 1))

Pieces == {WordA, WordB, WordC, <<" ">>, <<"\n">>, <<"\t">>}

RECURSIVE Concat(_)
Concat(ps) == IF ps = <<>> THEN <<>> ELSE Head(ps) \o Concat(Tail(ps))

TextsOf(n) == {Concat(ps) : ps \in UNION {[1..k -> Pieces] : k \in 0..n}}

SegTexts == TextsOf(MaxPieces)

----------------------------------------------------------------------------
(* The direct call as a specification: the request handlers and the        *)
(* database stay as constructed.                                           *)

Uploads == 1..MaxUploads

NoResponse == [status |-> 0]

NoRequest == [image |-> "none"]

UploadInit ==
    /\ pc = [u \in Uploads |-> "idle"]
    /\ request = [u \in Uploads |-> NoRequest]
    /\ raw_text = [u \in Uploads |-> <<>>]
    /\ paragraphs = [u \in Uploads |-> <<>>]
    /\ title = [u \in Uploads |-> <<>>]
    /\ blog_post = [u \in Uploads |-> 0]
    /\ idx = [u \in Uploads |-> 1]
    /\ response = [u \in Uploads |-> NoResponse]
    /\ temp_files = {}

DbInit ==
    /\ BlogPost_objects = <<>>
    /\ Paragraph_objects = {}
    /\ Idea_objects = {}
    /\ next_post_id = 1
    /\ next_idea_id = 1
    /\ retrieved = NoResponse

SegInit ==
    /\ text \in SegTexts
    /\ cleaned_paragraphs = <<>>
    /\ returned = FALSE
    /\ UploadInit
    /\ DbInit

ParseCall ==
    /\ ~returned
    /\ cleaned_paragraphs' = parse_into_paragraphs(text)
    /\ returned' = TRUE
    /\ UNCHANGED <<text, uploadVars, dbVars, retrieved>>

SegNext == ParseCall

SegSpec == SegInit /\ [][SegNext]_vars

----------------------------------------------------------------------------
(* BlogPostUploadSerializer *)

\* validate_image: at most 10MB, and one of the three allowed content types
validate_image(value) ==
    /\ ~value.over_10MB
    /\ value.content_type \in {"image/jpeg", "image/png", "image/webp"}

Jpeg == [over_10MB |-> FALSE, content_type |-> "image/jpeg"]

Gif == [over_10MB |-> FALSE, content_type |-> "image/gif"]

HugeJpeg == [over_10MB |-> TRUE, content_type |-> "image/jpeg"]

\* The request data the model sends: title is an optional, possibly blank
\* field; author is never sent.
UploadRequests ==
    {[image |-> Jpeg]}
    \cup {[image |-> Jpeg, title |-> t] : t \in {<<>>, Untitled, MyTitle}}
    \cup {[image |-> HugeJpeg], [image |-> Gif]}

\* The requests of the concurrent service.
ConcurrentRequests == {[image |-> Jpeg], [image |-> Gif]}

\* validated_data.get(key, default)
Get(data, key, default) == IF key \in DOMAIN data THEN data[key] ELSE default

----------------------------------------------------------------------------
(* OCRService.extract_and_parse *)

\* str.strip()
RECURSIVE lstrip(_)
lstrip(s) == IF s # <<>> /\ IsSpace(Head(s)) THEN lstrip(Tail(s)) ELSE s

RECURSIVE rstrip(_)
rstrip(s) ==
    IF s # <<>> /\ IsSpace(s[Len(s)]) THEN rstrip(SubSeq(s, 1, Len(s) - 1)) ELSE s

strip(s) == rstrip(lstrip(s))

\* extract_text_from_image: raises, or returns the backend's text stripped
OutcomesOf(texts) ==
    {[ok |-> FALSE]} \cup {[ok |-> TRUE, text |-> strip(t)] : t \in texts}

\* What the OCR backend answers in the single-upload pipeline: every text of
\* at most MaxPieces pieces.
PipelineOutcomes == OutcomesOf(SegTexts)

\* What it answers in the concurrent service: nothing, a page with two
\* paragraphs around a short block, or a page with one paragraph.
ConcurrentOutcomes ==
    OutcomesOf({ <<>>,
                 <<"\n">> \o WordB \o <<"\n", "\t", "\n">> \o WordC
                     \o <<"\n", "\n">> \o WordA \o <<"\n">> \o WordC \o <<" ">>,
                 WordA \o WordB \o WordC \o <<" ">> \o WordC })

----------------------------------------------------------------------------
(* BlogPostViewSet.upload *)

\* s[:n]
Take(s, n) == SubSeq(s, 1, IF Len(s) < n THEN Len(s) ELSE n)

\* Faulty variant of TruncatedTitle: the marker is appended from 50 characters on
TruncatedTitle_OffByOne(para) ==
    Take(para, TitleLimit) \o (IF Len(para) >= TitleLimit THEN Ellipsis ELSE <<>>)

\* paragraphs[0][:50] + ('...' if len(paragraphs[0]) > 50 else '')
TruncatedTitle(para) ==
    Take(para, TitleLimit) \o (IF Len(para) > TitleLimit THEN Ellipsis ELSE <<>>)

\* if not title or title == 'Untitled Post': ...
TitleIsMissing(t) == t = <<>> \/ t = Untitled

\* Faulty variant of derive_title: no else branch, a blank title stays blank
derive_title_NoFallback(t, paras) ==
    IF TitleIsMissing(t) /\ paras # <<>> THEN TruncatedTitle(paras[1]) ELSE t

derive_title(t, paras) ==
    IF TitleIsMissing(t)
    THEN IF paras # <<>> THEN TruncatedTitle(paras[1]) ELSE Untitled
    ELSE t

\* finally: os.unlink(temp_image_path)
Unlink(files, u) == files \ {u}

Done(u, resp) ==
    /\ pc' = [pc EXCEPT ![u] = "done"]
    /\ response' = [response EXCEPT ![u] = resp]

\* except Exception as e: ... finally: ...
Failed(u, e) ==
    /\ Done(u, [status |-> 500, error |-> e])
    /\ temp_files' = Unlink(temp_files, u)

\* is_valid(raise_exception=True), then the image is written to a temporary
\* file, outside the try block.
ReceiveUpload(u, requests) ==
    /\ pc[u] = "idle"
    /\ \E data \in requests, write_ok \in BOOLEAN :
          /\ request' = [request EXCEPT ![u] = data]
          /\ IF ~validate_image(data.image)
             THEN /\ Done(u, [status |-> 400])
                  /\ UNCHANGED <<title, temp_files>>
             ELSE /\ title' = [title EXCEPT ![u] = Get(data, "title", Untitled)]
                  /\ temp_files' = temp_files \cup {u}
                  /\ IF write_ok
                     THEN /\ pc' = [pc EXCEPT ![u] = "ocr"]
                          /\ UNCHANGED response
                     ELSE Done(u, [status |-> 500, error |-> "IOError"])
    /\ UNCHANGED <<raw_text, paragraphs, blog_post, idx, dbVars, retrieved, segVars>>

\* Faulty variant of ExtractAndParse: the post is created before the OCR call, so a
\* failed extraction leaves it behind
ExtractAndParse_PostFirst(u, outcomes) ==
    /\ pc[u] = "ocr"
    /\ BlogPost_objects' = [i \in DOMAIN BlogPost_objects \cup {next_post_id} |->
                               IF i = next_post_id
                               THEN [title |-> title[u], author |-> "Anonymous"]
                               ELSE BlogPost_objects[i]]
    /\ next_post_id' = next_post_id + 1
    /\ \E out \in outcomes :
          IF ~out.ok
          THEN /\ Failed(u, "ExtractionError")
               /\ UNCHANGED <<raw_text, paragraphs, title, blog_post>>
          ELSE /\ raw_text' = [raw_text EXCEPT ![u] = out.text]
               /\ paragraphs' = [paragraphs EXCEPT ![u] = parse_into_paragraphs(out.text)]
               /\ title' = [title EXCEPT ![u] = derive_title(title[u], paragraphs'[u])]
               /\ blog_post' = [blog_post EXCEPT ![u] = next_post_id]
               /\ pc' = [pc EXCEPT ![u] = "create_paragraphs"]
               /\ UNCHANGED <<response, temp_files>>
    /\ UNCHANGED <<request, idx, Paragraph_objects, ideaVars, retrieved,
                   segVars>>

\* raw_text, paragraphs = ocr_service.extract_and_parse(temp_image_path),
\* then the title is derived.
ExtractAndParse(u, outcomes) ==
    /\ pc[u] = "ocr"
    /\ \E out \in outcomes :
          IF ~out.ok
          THEN /\ Failed(u, "ExtractionError")
               /\ UNCHANGED <<raw_text, paragraphs, title>>
          ELSE /\ raw_text' = [raw_text EXCEPT ![u] = out.text]
               /\ paragraphs' = [paragraphs EXCEPT ![u] = parse_into_paragraphs(out.text)]
               /\ title' = [title EXCEPT ![u] = derive_title(title[u], paragraphs'[u])]
               /\ pc' = [pc EXCEPT ![u] = "create_post"]
               /\ UNCHANGED <<response, temp_files>>
    /\ UNCHANGED <<request, blog_post, idx, dbVars, retrieved, segVars>>

\* BlogPost.objects.create(title=title, author=author, image=image_file)
BlogPost_create(objects, id, t, a) ==
    [i \in DOMAIN objects \cup {id} |->
        IF i = id THEN [title |-> t, author |-> a] ELSE objects[i]]

CreateBlogPost(u) ==
    /\ pc[u] = "create_post"
    /\ \E db_ok \in BOOLEAN :
          IF db_ok
          THEN /\ BlogPost_objects' =
                     BlogPost_create(BlogPost_objects, next_post_id, title[u],
                                     Get(request[u], "author", "Anonymous"))
               /\ next_post_id' = next_post_id + 1
               /\ blog_post' = [blog_post EXCEPT ![u] = next_post_id]
               /\ idx' = [idx EXCEPT ![u] = 1]
               /\ pc' = [pc EXCEPT ![u] = "create_paragraphs"]
               /\ UNCHANGED <<response, temp_files>>
          ELSE /\ Failed(u, "DatabaseError")
               /\ UNCHANGED <<BlogPost_objects, next_post_id, blog_post, idx>>
    /\ UNCHANGED <<request, raw_text, paragraphs, title, Paragraph_objects,
                   ideaVars, retrieved,
                   segVars>>

\* Faulty variant of Paragraph_row: every row is attached to the first post
Paragraph_row_FirstPost(post, i, t) == [post |-> 1, paragraph_id |-> i, text |-> t]

\* Faulty variant of Paragraph_row: enumerate(paragraphs) without start=1
Paragraph_row_FromZero(post, i, t) == [post |-> post, paragraph_id |-> i - 1, text |-> t]

\* The row Paragraph.objects.create(post=, paragraph_id=, text=) inserts.
Paragraph_row(post, i, t) == [post |-> post, paragraph_id |-> i, text |-> t]

\* The foreign key to BlogPost and unique_together = ['post', 'paragraph_id'].
Paragraph_insertable(row) ==
    /\ row.post \in DOMAIN BlogPost_objects
    /\ ~\E r \in Paragraph_objects :
          r.post = row.post /\ r.paragraph_id = row.paragraph_id

\* One iteration of: for idx, para_text in enumerate(paragraphs, start=1)
CreateParagraph(u) ==
    /\ pc[u] = "create_paragraphs"
    /\ idx[u] <= Len(paragraphs[u])
    /\ \E db_ok \in BOOLEAN :
          LET row == Paragraph_row(blog_post[u], idx[u], paragraphs[u][idx[u]])
          IN  IF db_ok /\ Paragraph_insertable(row)
              THEN /\ Paragraph_objects' = Paragraph_objects \cup {row}
                   /\ idx' = [idx EXCEPT ![u] = idx[u] + 1]
                   /\ UNCHANGED <<pc, response, temp_files>>
              ELSE /\ Failed(u, "DatabaseError")
                   /\ UNCHANGED <<Paragraph_objects, idx>>
    /\ UNCHANGED <<request, raw_text, paragraphs, title, blog_post,
                   BlogPost_objects, ideaVars, next_post_id, retrieved,
                   segVars>>

\* Meta.ordering = ['paragraph_id']
RECURSIVE OrderByParagraphId(_)
OrderByParagraphId(rows) ==
    IF rows = {} THEN <<>>
    ELSE LET first == CHOOSE r \in rows :
                          \A q \in rows : r.paragraph_id <= q.paragraph_id
         IN  <<first>> \o OrderByParagraphId(rows \ {first})

\* ParagraphSerializer(many=True) over post.content
Content(post) ==
    LET rows == OrderByParagraphId({r \in Paragraph_objects : r.post = post})
    IN  [k \in 1..Len(rows) |-> [id |-> rows[k].paragraph_id, text |-> rows[k].text]]

\* BlogPostDetailSerializer(instance).data
BlogPostDetail(id, t, a) ==
    [id |-> id, title |-> t, author |-> a, content |-> Content(id),
     ideas |-> {i \in Idea_objects : i.post = id}]

\* The loop is over: the created post is serialized and returned.
Respond(u) ==
    /\ pc[u] = "create_paragraphs"
    /\ idx[u] > Len(paragraphs[u])
    /\ Done(u, [status |-> 201,
                data |-> BlogPostDetail(blog_post[u], title[u],
                                        Get(request[u], "author", "Anonymous"))])
    /\ temp_files' = Unlink(temp_files, u)
    /\ UNCHANGED <<request, raw_text, paragraphs, title, blog_post, idx,
                   dbVars, retrieved, segVars>>

----------------------------------------------------------------------------
(* BlogPostViewSet.retrieve *)

PostIds == 1..MaxUploads

Retrieve(id) ==
    /\ retrieved' =
          IF id \in DOMAIN BlogPost_objects
          THEN [status |-> 200,
                data |-> BlogPostDetail(id, BlogPost_objects[id].title,
                                        BlogPost_objects[id].author)]
          ELSE [status |-> 404]
    /\ UNCHANGED <<uploadVars, dbVars, segVars>>

----------------------------------------------------------------------------
(* BlogPostViewSet.update (PUT, and PATCH through partial_update) and destroy *)

\* {k: v for k, v in request.data.items() if k in allowed_fields}
Filter(data, allowed_fields) ==
    [k \in DOMAIN data \cap allowed_fields |-> data[k]]

\* The bodies sent to PUT/PATCH /api/posts/{id}/: a full body that also
\* carries an empty content list, and a body with the content list alone.
PostUpdateRequests ==
    {[title |-> MyTitle, author |-> "Ann", content |-> <<>>],
     [content |-> <<>>]}

\* BlogPostDetailSerializer(instance, data=, partial=).is_valid(): title is
\* required unless partial, author has a default; neither may be blank.
BlogPostDetail_is_valid(data, partial) ==
    /\ partial \/ "title" \in DOMAIN data
    /\ "title" \in DOMAIN data => data.title # <<>>
    /\ "author" \in DOMAIN data => data.author # ""

\* serializer.save() on an instance: the validated fields are assigned
BlogPost_update(objects, id, validated_data) ==
    [objects EXCEPT ![id] =
        [title |-> Get(validated_data, "title", @.title),
         author |-> Get(validated_data, "author", @.author)]]

UpdatePost(id, data, partial) ==
    /\ IF id \notin DOMAIN BlogPost_objects
       THEN UNCHANGED BlogPost_objects                           \* 404
       ELSE LET filtered_data == Filter(data, {"title", "author"})
            IN  IF ~BlogPostDetail_is_valid(filtered_data, partial)
                THEN UNCHANGED BlogPost_objects                  \* 400
                ELSE BlogPost_objects' =                         \* 200
                        BlogPost_update(BlogPost_objects, id, filtered_data)
    /\ UNCHANGED <<uploadVars, Paragraph_objects, ideaVars, next_post_id,
                   retrieved, segVars>>

\* Faulty variant of Cascade_ideas: only the paragraphs go with the post
Cascade_ideas_None(post) == {}

\* on_delete=models.CASCADE of Idea.post, and of Idea.paragraph through
\* Paragraph.post: the ideas deleted with a post
Cascade_ideas(post) ==
    {i \in Idea_objects : i.post = post \/ i.paragraph.post = post}

\* on_delete=models.CASCADE of Paragraph.post
Cascade_paragraphs(post) == {r \in Paragraph_objects : r.post = post}

DestroyPost(id) ==
    /\ IF id \notin DOMAIN BlogPost_objects
       THEN UNCHANGED <<BlogPost_objects, Paragraph_objects, Idea_objects>>  \* 404
       ELSE /\ Idea_objects' = Idea_objects \ Cascade_ideas(id)             \* 204
            /\ Paragraph_objects' = Paragraph_objects \ Cascade_paragraphs(id)
            /\ BlogPost_objects' =
                  [i \in DOMAIN BlogPost_objects \ {id} |-> BlogPost_objects[i]]
    /\ UNCHANGED <<uploadVars, next_post_id, next_idea_id, retrieved, segVars>>

----------------------------------------------------------------------------
(* IdeaViewSet.create, update and destroy *)

IdeaIds == 1..MaxIdeas

\* The bodies sent to POST /api/ideas/: without a post_id, with the falsy
\* post_id 0, with the id of a post that can exist or of one that never
\* does, a position that can exist or never does, and a note that may be blank.
IdeaCreateRequests ==
    {[paragraphId |-> 1, quote |-> "q", note |-> "n"],
     [post_id |-> 0, paragraphId |-> 1, quote |-> "q", note |-> "n"],
     [post_id |-> 1, paragraphId |-> 1, quote |-> "q", note |-> ""]}
    \cup {[post_id |-> p, paragraphId |-> k, quote |-> "q", note |-> "n"] :
             p \in 1..3, k \in 1..3}

\* IdeaCreateSerializer(data=).is_valid(): paragraphId, quote and note are
\* required, quote and note may not be blank.
IdeaCreate_is_valid(data) ==
    /\ "paragraphId" \in DOMAIN data
    /\ "quote" \in DOMAIN data /\ data.quote # ""
    /\ "note" \in DOMAIN data /\ data.note # ""

\* Faulty variant of Paragraph_get: the post is left out of the lookup
Paragraph_get_AnyPost(post_id, paragraph_id) ==
    {r \in Paragraph_objects : r.paragraph_id = paragraph_id}

\* Paragraph.objects.get(post_id=post_id, paragraph_id=paragraph_id): the
\* rows that match (none: Paragraph.DoesNotExist)
Paragraph_get(post_id, paragraph_id) ==
    {r \in Paragraph_objects : r.post = post_id /\ r.paragraph_id = paragraph_id}

\* The foreign key to a Paragraph row, which (post, paragraph_id) identifies
\* by unique_together.
ParagraphKey(r) == [post |-> r.post, paragraph_id |-> r.paragraph_id]

\* Idea.objects.create(post_id=post_id, paragraph=paragraph, **validated_data)
Idea_row(id, post_id, paragraph, validated_data) ==
    [id |-> id, post |-> post_id, paragraph |-> ParagraphKey(paragraph),
     quote |-> validated_data.quote, note |-> validated_data.note]

\* IdeaSerializer(idea).data: paragraphId has source 'paragraph.paragraph_id'
IdeaData(idea) ==
    [id |-> idea.id, paragraphId |-> idea.paragraph.paragraph_id,
     quote |-> idea.quote, note |-> idea.note]

\* The Idea that IdeaCreateSerializer.create makes of a valid body
Idea_created(data) ==
    Idea_row(next_idea_id, data.post_id,
             CHOOSE paragraph \in Paragraph_get(data.post_id, data.paragraphId) : TRUE,
             data)

\* The Response of IdeaViewSet.create to a body, in the current state
IdeaCreate_response(data) ==
    LET post_id == Get(data, "post_id", 0)
    IN  IF post_id = 0                                  \* if not post_id:
        THEN [status |-> 400, error |-> "post_id is required"]
        ELSE IF post_id \notin DOMAIN BlogPost_objects  \* get_object_or_404
        THEN [status |-> 404]
        ELSE IF ~IdeaCreate_is_valid(data)              \* is_valid(raise_exception=True)
        THEN [status |-> 400]
        ELSE IF Paragraph_get(post_id, data.paragraphId) = {}
        THEN [status |-> 400]                           \* raise ValidationError
        ELSE [status |-> 201, data |-> IdeaData(Idea_created(data))]

IdeaCreate(data) ==
    /\ IF IdeaCreate_response(data).status = 201
       THEN /\ next_idea_id <= MaxIdeas
            /\ Idea_objects' = Idea_objects \cup {Idea_created(data)}
            /\ next_idea_id' = next_idea_id + 1
       ELSE UNCHANGED ideaVars
    /\ UNCHANGED <<uploadVars, BlogPost_objects, Paragraph_objects, next_post_id,
                   retrieved, segVars>>

\* The bodies sent to PUT/PATCH /api/ideas/{id}/
IdeaUpdateRequests ==
    {[quote |-> "q", note |-> "n2", paragraphId |-> 3],
     [paragraphId |-> 3]}

\* IdeaSerializer(instance, data=, partial=).is_valid()
Idea_is_valid(data, partial) ==
    /\ partial \/ {"quote", "note"} \subseteq DOMAIN data
    /\ "quote" \in DOMAIN data => data.quote # ""
    /\ "note" \in DOMAIN data => data.note # ""

IdeaUpdate(id, data, partial) ==
    /\ IF ~\E i \in Idea_objects : i.id = id
       THEN UNCHANGED Idea_objects                               \* 404
       ELSE LET instance == CHOOSE i \in Idea_objects : i.id = id
                filtered_data == Filter(data, {"quote", "note"})
                updated == [instance EXCEPT
                               !.quote = Get(filtered_data, "quote", @),
                               !.note = Get(filtered_data, "note", @)]
            IN  IF ~Idea_is_valid(filtered_data, partial)
                THEN UNCHANGED Idea_objects                      \* 400
                ELSE Idea_objects' =                             \* 200
                        (Idea_objects \ {instance}) \cup {updated}
    /\ UNCHANGED <<uploadVars, BlogPost_objects, Paragraph_objects, next_post_id,
                   next_idea_id, retrieved, segVars>>

IdeaDestroy(id) ==
    /\ IF ~\E i \in Idea_objects : i.id = id
       THEN UNCHANGED Idea_objects                               \* 404
       ELSE Idea_objects' = {i \in Idea_objects : i.id # id}     \* 204
    /\ UNCHANGED <<uploadVars, BlogPost_objects, Paragraph_objects, next_post_id,
                   next_idea_id, retrieved, segVars>>

----------------------------------------------------------------------------
(* The service: concurrent uploads and retrieves *)

Init ==
    /\ text = <<>>
    /\ cleaned_paragraphs = <<>>
    /\ returned = FALSE
    /\ UploadInit
    /\ DbInit

Next ==
    \/ \E u \in Uploads : ReceiveUpload(u, ConcurrentRequests)
    \/ \E u \in Uploads : ExtractAndParse(u, ConcurrentOutcomes)
    \/ \E u \in Uploads : CreateBlogPost(u)
    \/ \E u \in Uploads : CreateParagraph(u)
    \/ \E u \in Uploads : Respond(u)
    \/ \E id \in PostIds : Retrieve(id)

Spec == Init /\ [][Next]_vars

\* One upload on its own, over every request and every OCR answer.
PipelineNext ==
    \/ ReceiveUpload(1, UploadRequests)
    \/ ExtractAndParse(1, PipelineOutcomes)
    \/ CreateBlogPost(1)
    \/ CreateParagraph(1)
    \/ Respond(1)

PipelineSpec == Init /\ [][PipelineNext]_vars

----------------------------------------------------------------------------
(* The whole API: uploads, post update and destroy, and the ideas *)

\* The two requests this specification follows while the other operations
\* of the API run, and the posts they can create.
ApiUploads == {1, 2}

ApiPostIds == {1, 2}

\* The page every upload of this specification recognizes: two paragraphs.
ApiOutcomes == OutcomesOf({WordB \o <<"\n", "\n">> \o WordA \o <<" ">> \o WordC})

ApiNext ==
    \/ \E u \in ApiUploads : ReceiveUpload(u, {[image |-> Jpeg]})
    \/ \E u \in ApiUploads : ExtractAndParse(u, ApiOutcomes)
    \/ \E u \in ApiUploads : CreateBlogPost(u)
    \/ \E u \in ApiUploads : CreateParagraph(u)
    \/ \E u \in ApiUploads : Respond(u)
    \/ \E id \in ApiPostIds, data \in PostUpdateRequests, partial \in BOOLEAN :
          UpdatePost(id, data, partial)
    \/ \E id \in ApiPostIds : DestroyPost(id)
    \/ \E data \in IdeaCreateRequests : IdeaCreate(data)
    \/ \E id \in IdeaIds, data \in IdeaUpdateRequests, partial \in BOOLEAN :
          IdeaUpdate(id, data, partial)
    \/ \E id \in IdeaIds : IdeaDestroy(id)

ApiSpec == Init /\ [][ApiNext]_vars

----------------------------------------------------------------------------
(* Claims about parse_into_paragraphs, checked under SegSpec *)

Range(s) == {s[k] : k \in 1..Len(s)}

NormalizedBlocks(s) == [k \in 1..Len(re_split(s)) |-> Normalize(re_split(s)[k])]

\* C2: every returned paragraph is longer than 20 characters, also after
\* normalizing it again; a block of the input whose normalized length is 20
\* or less is not in the output, and one of 21 or more is.
C2_LengthFilter ==
    returned =>
        /\ \A p \in Range(cleaned_paragraphs) :
              Len(p) >= 21 /\ Len(Normalize(p)) >= 21
        /\ \A b \in Range(NormalizedBlocks(text)) :
              /\ Len(b) <= 20 => b \notin Range(cleaned_paragraphs)
              /\ Len(b) >= 21 => b \in Range(cleaned_paragraphs)

\* a block of exactly 20 characters is dropped, one of exactly 21 is kept
C2_Witness ==
    /\ returned
    /\ text = WordA \o <<"\n", "\n">> \o WordB
    /\ Len(WordA) = 20 /\ Len(WordB) = 21
    /\ cleaned_paragraphs = <<WordB>>

\* C3: a returned paragraph neither starts nor ends with whitespace, holds no
\* newline and no tab, holds no two adjacent whitespace characters, and
\* normalizing it again returns it unchanged.
C3_NormalForm ==
    returned =>
        \A p \in Range(cleaned_paragraphs) :
            /\ p # <<>>
            /\ ~IsSpace(p[1]) /\ ~IsSpace(p[Len(p)])
            /\ \A k \in 1..Len(p) : p[k] \notin {"\n", "\t"}
            /\ \A k \in 1..(Len(p) - 1) : ~(IsSpace(p[k]) /\ IsSpace(p[k + 1]))
            /\ Normalize(p) = p

\* leading space, a tab and a newline inside the block: all collapsed
C3_Witness ==
    /\ returned
    /\ text = <<" ">> \o WordB \o <<"\t", "\n">> \o WordC
    /\ cleaned_paragraphs = <<WordB \o <<" ">> \o WordC>>

\* C4: the output is the subsequence of the normalized blocks that pass the
\* length filter, in the blocks' order: the k-th paragraph is the k-th
\* surviving block, so nothing is reordered, duplicated, merged or dropped.
C4_OrderedSubsequence ==
    returned =>
        LET nb == NormalizedBlocks(text)
            keep == SelectSeq(Indices(nb), LAMBDA k : Len(nb[k]) > 20)
        IN  /\ Len(cleaned_paragraphs) = Len(keep)
            /\ \A k \in 1..Len(keep) : cleaned_paragraphs[k] = nb[keep[k]]

\* two surviving blocks with the same text both appear
C4_Witness ==
    /\ returned
    /\ Len(re_split(text)) = 2
    /\ Len(cleaned_paragraphs) = 2
    /\ cleaned_paragraphs[1] = cleaned_paragraphs[2]

\* The start of the whitespace run that ends at index k (s[k] is whitespace).
RECURSIVE WsRunStart(_, _)
WsRunStart(s, k) ==
    IF k > 1 /\ IsSpace(s[k - 1]) THEN WsRunStart(s, k - 1) ELSE k

\* The paragraphs the blank-line rule prescribes, read off the text itself.
\* A fragment is a maximal run of non-whitespace; a paragraph starts at the
\* first fragment and at every fragment that has two or more newlines in the
\* whitespace before it.
IsParagraphStart(s, k) ==
    /\ ~IsSpace(s[k])
    /\ \/ k = 1
       \/ /\ IsSpace(s[k - 1])
          /\ LET gap == WsRunStart(s, k - 1)
             IN  \/ gap = 1
                 \/ Cardinality({j \in gap..(k - 1) : s[j] = "\n"}) >= 2

\* every whitespace run inside the paragraph becomes one space, the
\* whitespace at its end is dropped
Squeeze(s) ==
    LET kept == SelectSeq(Indices(s),
                          LAMBDA k : \/ ~IsSpace(s[k])
                                     \/ /\ ~IsSpace(s[k - 1])
                                        /\ \E j \in k..Len(s) : ~IsSpace(s[j]))
    IN  [n \in 1..Len(kept) |-> IF IsSpace(s[kept[n]]) THEN " " ELSE s[kept[n]]]

ExpectedParagraphs(s) ==
    LET starts == SelectSeq(Indices(s), LAMBDA k : IsParagraphStart(s, k))
        stop(n) == IF n = Len(starts) THEN Len(s) ELSE starts[n + 1] - 1
        all == [n \in 1..Len(starts) |-> Squeeze(SubSeq(s, starts[n], stop(n)))]
    IN  SelectSeq(all, LAMBDA p : Len(p) > 20)

----------------------------------------------------------------------------
(* Claims about upload *)

\* extract_and_parse has returned for upload u
Extracted(u) ==
    \/ pc[u] \in {"create_post", "create_paragraphs"}
    \/ /\ pc[u] = "done"
       /\ \/ response[u].status = 201
          \/ response[u].status = 500 /\ response[u].error = "DatabaseError"

\* extract_and_parse has raised for upload u
ExtractionFailed(u) ==
    /\ pc[u] = "done"
    /\ response[u].status = 500
    /\ response[u].error = "ExtractionError"

Succeeded(u) == pc[u] = "done" /\ response[u].status = 201

RowsOf(post) == {r \in Paragraph_objects : r.post = post}

\* C1: after an upload that returned success, the stored paragraphs of its
\* post have the positions 1..N, each once, N the length of the list
\* parse_into_paragraphs returned, and position i holds the list's i-th
\* element; the response lists them in that order.
C1_DensePositions ==
    \A u \in Uploads :
        Succeeded(u) =>
            LET list == parse_into_paragraphs(raw_text[u])
                rows == RowsOf(blog_post[u])
            IN  /\ {r.paragraph_id : r \in rows} = 1..Len(list)
                /\ Cardinality(rows) = Len(list)
                /\ \A r \in rows : r.text = list[r.paragraph_id]
                /\ response[u].data.content =
                      [k \in 1..Len(list) |-> [id |-> k, text |-> list[k]]]

\* a successful upload of a page with two different paragraphs
C1_Witness ==
    \E u \in Uploads :
        /\ Succeeded(u)
        /\ Len(paragraphs[u]) = 2
        /\ paragraphs[u][1] # paragraphs[u][2]
        /\ Cardinality(RowsOf(blog_post[u])) = 2

\* The title the request asked for (the default when it sent none).
RequestedTitle(u) == Get(request[u], "title", Untitled)

\* C6: a title derived from a non-empty paragraph list is the first paragraph
\* itself when that has at most 50 characters, and otherwise its first 50
\* characters followed by '...'; it never has more than 53 characters, and it
\* is the title the post is stored with.
C6_DerivedTitle ==
    \A u \in Uploads :
        (Extracted(u) /\ RequestedTitle(u) \in {<<>>, Untitled} /\ paragraphs[u] # <<>>) =>
            LET p == paragraphs[u][1]
                t == title[u]
            IN  /\ Len(p) <= 50 => t = p
                /\ Len(p) > 50 =>
                      /\ Len(t) = 53
                      /\ SubSeq(t, 1, 50) = SubSeq(p, 1, 50)
                      /\ SubSeq(t, 51, 53) = <<".", ".", ".">>
                /\ Len(t) <= 53
                /\ blog_post[u] # 0 => BlogPost_objects[blog_post[u]].title = t
                /\ Succeeded(u) => response[u].data.title = t

\* a first paragraph of 51 characters: truncated, with the marker, and stored
C6_Witness ==
    \E u \in Uploads :
        /\ Succeeded(u)
        /\ "title" \notin DOMAIN request[u]
        /\ paragraphs[u] # <<>>
        /\ Len(paragraphs[u][1]) = 51
        /\ BlogPost_objects[blog_post[u]].title = SubSeq(paragraphs[u][1], 1, 50) \o Ellipsis

\* C7 (as claimed): a post created from a request with a non-blank title has
\* exactly that title, whatever the title and the paragraphs are.
C7_SuppliedTitleKept ==
    \A u \in Uploads :
        ( /\ blog_post[u] # 0
          /\ "title" \in DOMAIN request[u]
          /\ request[u].title # <<>> ) =>
            BlogPost_objects[blog_post[u]].title = request[u].title

\* C8: an extracted text without a surviving block (the empty text too) gives
\* the empty list; an upload with the empty list and no title supplied
\* (absent or blank) is not an error: its title is 'Untitled Post', and it
\* ends with status 201 and a stored post of that title without paragraphs,
\* unless the insert of the post itself failed in the database.
C8_ZeroParagraphs ==
    \A u \in Uploads :
        Extracted(u) =>
            /\ (\A b \in Range(NormalizedBlocks(raw_text[u])) : Len(b) <= 20)
                  => paragraphs[u] = <<>>
            /\ (paragraphs[u] = <<>> /\ Get(request[u], "title", <<>>) = <<>>) =>
                  /\ title[u] = Untitled
                  /\ pc[u] = "done" =>
                        \/ /\ response[u].status = 201
                           /\ blog_post[u] \in DOMAIN BlogPost_objects
                           /\ BlogPost_objects[blog_post[u]].title = Untitled
                           /\ RowsOf(blog_post[u]) = {}
                           /\ response[u].data.content = <<>>
                        \/ /\ response[u].status = 500
                           /\ blog_post[u] = 0

\* a successful upload with a blank title of a text that has only a short block
C8_Witness ==
    \E u \in Uploads :
        /\ Succeeded(u)
        /\ "title" \in DOMAIN request[u] /\ request[u].title = <<>>
        /\ raw_text[u] # <<>>
        /\ paragraphs[u] = <<>>
        /\ BlogPost_objects[blog_post[u]].title = Untitled

\* C9: an upload whose extraction failed returns an error, has started
\* neither segmentation nor title derivation nor persistence, and none of
\* its steps changes the stored posts, paragraphs or ideas; every stored post
\* was created by an upload whose extraction succeeded.
C9_FailedUploadState ==
    /\ \A u \in Uploads :
          ExtractionFailed(u) =>
              /\ blog_post[u] = 0
              /\ raw_text[u] = <<>> /\ paragraphs[u] = <<>>
              /\ title[u] = RequestedTitle(u)
    /\ \A id \in DOMAIN BlogPost_objects :
          \E u \in Uploads : blog_post[u] = id /\ Extracted(u)
    /\ \A r \in Paragraph_objects :
          \E u \in Uploads : blog_post[u] = r.post /\ Extracted(u)

C9_FailedUploadStep ==
    \A u \in Uploads :
        (pc[u] \in {"idle", "ocr"} /\ pc'[u] # pc[u]) =>
            /\ UNCHANGED dbVars
            /\ pc'[u] = "done" => response'[u].status \in {400, 500}

C9_ExtractionFailureLeavesNothing ==
    []C9_FailedUploadState /\ [][C9_FailedUploadStep]_vars

\* an extraction failed while another upload's post and paragraph are stored
C9_Witness ==
    \E u \in Uploads :
        /\ ExtractionFailed(u)
        /\ BlogPost_objects # <<>>
        /\ Paragraph_objects # {}

\* C10 (as claimed): a stored post has all the paragraphs of its
\* segmentation run, in the database and in every retrieve response.
C10_AtomicBatch ==
    \A u \in Uploads :
        (blog_post[u] # 0 /\ blog_post[u] \in DOMAIN BlogPost_objects) =>
            /\ Cardinality(RowsOf(blog_post[u])) = Len(paragraphs[u])
            /\ (retrieved.status = 200 /\ retrieved.data.id = blog_post[u]) =>
                  Len(retrieved.data.content) = Len(paragraphs[u])

----------------------------------------------------------------------------
(* Claims about the other operations of the API, checked under ApiSpec *)

\* The (position, text) pairs of the paragraphs stored for a post
PositionTexts(post) == {<<r.paragraph_id, r.text>> : r \in RowsOf(post)}

\* The pairs the upload u has created so far: one for each element of its
\* list that the loop has passed
CreatedAtUpload(u) == {<<i, paragraphs[u][i]>> : i \in 1..(idx[u] - 1)}

\* C11: whatever post updates and partial updates, idea creations, updates
\* and deletions and uploads of other posts have happened, every post that
\* still exists was created by an upload, and the (position, text) pairs of
\* its paragraphs are exactly those that upload created: no text is edited,
\* no position renumbered, no paragraph added or removed.
C11_ParagraphsFrozen ==
    /\ \A id \in DOMAIN BlogPost_objects : \E u \in Uploads : blog_post[u] = id
    /\ \A u \in Uploads :
          blog_post[u] \in DOMAIN BlogPost_objects =>
             /\ PositionTexts(blog_post[u]) = CreatedAtUpload(u)
             /\ Cardinality(RowsOf(blog_post[u])) = idx[u] - 1

\* A finished two-paragraph post that has been retitled and given an
\* author, after an idea was created and another upload succeeded.
C11_Witness ==
    \E u, v \in Uploads :
        /\ u # v /\ Succeeded(u) /\ Succeeded(v)
        /\ blog_post[u] \in DOMAIN BlogPost_objects
        /\ BlogPost_objects[blog_post[u]] = [title |-> MyTitle, author |-> "Ann"]
        /\ Cardinality(PositionTexts(blog_post[u])) = 2
        /\ \E i \in Idea_objects : i.post = blog_post[u] /\ i.note = "n2"

\* The post a creation body names exists and has a paragraph at the
\* position the body names.
ReferenceValid(data) ==
    /\ "post_id" \in DOMAIN data
    /\ data.post_id \in DOMAIN BlogPost_objects
    /\ \E r \in RowsOf(data.post_id) : r.paragraph_id = data.paragraphId

\* C12 (as claimed): an idea creation is answered with the created idea
\* exactly when the post exists and has a paragraph at position paragraphId.
C12_StoredIffReferenceValid ==
    \A data \in IdeaCreateRequests :
        IdeaCreate_response(data).status = 201 <=> ReferenceValid(data)

\* C12 (amended): an idea creation stores a new idea, and answers 201 with
\* the position it was sent, exactly when the post exists, has a paragraph
\* at position paragraphId (which is 1 <= paragraphId <= N, N the number of
\* paragraphs stored for the post) and the body passes field validation
\* (quote and note present and not blank); otherwise the answer is a 400 or
\* 404 and no idea is stored.  The idea stored references the post and the
\* position of the body, and every stored idea's paragraph is a stored
\* paragraph of the idea's own post.
C12_IdeaReference ==
    /\ \A data \in IdeaCreateRequests :
          LET resp == IdeaCreate_response(data)
          IN  /\ resp.status = 201 <=>
                    (ReferenceValid(data) /\ IdeaCreate_is_valid(data))
              /\ resp.status # 201 => resp.status \in {400, 404}
              /\ resp.status = 201 =>
                    /\ resp.data.paragraphId = data.paragraphId
                    /\ resp.data.id \notin {i.id : i \in Idea_objects}
                    /\ Idea_created(data).post = data.post_id
                    /\ Idea_created(data).paragraph =
                          [post |-> data.post_id, paragraph_id |-> data.paragraphId]
              /\ ("post_id" \in DOMAIN data
                    /\ data.post_id \in DOMAIN BlogPost_objects) =>
                    (ReferenceValid(data) <=>
                        data.paragraphId \in
                            1..Cardinality(RowsOf(data.post_id)))
    /\ \A i \in Idea_objects :
          /\ i.paragraph.post = i.post
          /\ \E r \in RowsOf(i.post) : ParagraphKey(r) = i.paragraph
          /\ IdeaData(i).paragraphId = i.paragraph.paragraph_id

\* An idea on position 2 of one post while another post exists that has
\* no position 2, and after a creation on that other post was refused.
C12_Witness ==
    \E i \in Idea_objects :
        /\ i.paragraph.paragraph_id = 2
        /\ \E id \in DOMAIN BlogPost_objects :
              /\ id # i.post
              /\ Cardinality(RowsOf(id)) = 1
              /\ IdeaCreate_response([post_id |-> id, paragraphId |-> 2,
                                      quote |-> "q", note |-> "n"]).status = 400

\* every stored paragraph references an existing post, every stored idea
\* an existing post and an existing paragraph
C14_References ==
    /\ \A r \in Paragraph_objects : r.post \in DOMAIN BlogPost_objects
    /\ \A i \in Idea_objects :
          /\ i.post \in DOMAIN BlogPost_objects
          /\ \E r \in Paragraph_objects : ParagraphKey(r) = i.paragraph

\* a paragraph goes only in a step in which its post goes; a step in which
\* a post goes leaves nothing that referenced it and keeps the rest
C14_DeleteStep ==
    /\ \A r \in Paragraph_objects \ Paragraph_objects' :
          r.post \notin DOMAIN BlogPost_objects'
    /\ \A id \in DOMAIN BlogPost_objects \ DOMAIN BlogPost_objects' :
          /\ \A r \in Paragraph_objects' : r.post # id
          /\ \A i \in Idea_objects' : i.post # id /\ i.paragraph.post # id
          /\ Paragraph_objects' = {r \in Paragraph_objects : r.post # id}
          /\ Idea_objects' =
                {i \in Idea_objects : i.post # id /\ i.paragraph.post # id}
          /\ \A other \in DOMAIN BlogPost_objects \ {id} :
                /\ other \in DOMAIN BlogPost_objects'
                /\ BlogPost_objects'[other] = BlogPost_objects[other]

\* C14: a paragraph is destroyed only in the deletion of its post; deleting
\* a post removes its paragraphs and the ideas that referenced it or them,
\* and leaves the other posts, their paragraphs and their ideas as they
\* were; in every state each paragraph references an existing post and each
\* idea an existing post and an existing paragraph.
C14_CascadeDelete ==
    []C14_References /\ [][C14_DeleteStep]_vars

\* A post whose upload had stored two paragraphs has been deleted, and the
\* other post still has its two paragraphs and an idea.
C14_Witness ==
    \E u, v \in Uploads :
        /\ Succeeded(u) /\ Len(paragraphs[u]) = 2
        /\ blog_post[u] \notin DOMAIN BlogPost_objects
        /\ blog_post[v] \in DOMAIN BlogPost_objects
        /\ Cardinality(RowsOf(blog_post[v])) = 2
        /\ \E i \in Idea_objects : i.post = blog_post[v]

----------------------------------------------------------------------------
(* Claims about the temporary file, checked under PipelineSpec *)

\* C13 (as claimed): no upload ends with its temporary file still present,
\* whichever way it ends: success, extractor failure, persistence failure,
\* or a failure while the image chunks are written into the file.
C13_TempFileReleased ==
    \A u \in Uploads : pc[u] = "done" => u \notin temp_files

====
